---- MODULE Spec2Model ----
(***************************************************************************)
(* Model of the Seiko QT-2100 printer-stream parser.                       *)
(*                                                                         *)
(*   src/seiko_converter/qt2100_parser.py     SeikoQT2100Parser            *)
(*   src/seiko_converter/qt2100_converter.py  SeikoQT2100GraphTool         *)
(*                                                                         *)
(* One action is one iteration of the `for databyte in it_raw_data` loop   *)
(* of parse(), reads made through read_from_buffer() included, or one call *)
(* of to_csv() or to_graph() on a parser whose parse() has returned.       *)
(*                                                                         *)
(* Measurements are kept as integers in thousandths (measure * 1000).  An  *)
(* optional value is a sequence: None is << >> and a value v is << v >>.   *)
(*                                                                         *)
(* Two specifications share the actions:                                   *)
(*   Spec      the bytes of the file are not fixed in advance: each one    *)
(*             is chosen from the input sets when the iterator delivers it *)
(*             (raw_data = Unread), so every buffer of at most MaxLen      *)
(*             bytes over the input sets is explored;                      *)
(*   SpecFile  raw_data is fixed at construction (a prefix of at most      *)
(*             MaxFrames frames of the library Frames) and parse() may be  *)
(*             called again on the same parser.                            *)
(***************************************************************************)
EXTENDS Integers, Sequences, FiniteSets, TLC

\* ------------------------------------------------------------------ bounds

\* Longest buffer explored under Spec, in bytes.
MaxLen == 13

\* Most frames of the library concatenated into a file under SpecFile.
MaxFrames == 2

\* Most calls of parse() on one parser.
MaxCalls == 2

\* build_wrapped_dataset: values of magnitude up to MaxValue, lists of up to
\* MaxValues of them.
MaxValue == 7

MaxValues == 2

\* --------------------------------------------------------- program constants

ESC == 27

CmdHeader == 48

CmdValue == 49

CmdTimestamp == 84

\* Variant: the trailer expected is ESC '0'.
Esc1HeaderEsc0 == ESC * 256 + CmdHeader

Esc1Header == 6961

ErrorBit == 128

HzBit == 32

None == << >>

Some(x) == << x >>

\* A local name of parse() that no statement has bound yet.
Unbound == 0 - 1

Unread == << Unbound >>

\* Variant: one more rate code accepted.
RateModesWide == {0, 1, 2, 3, 4}

RATE_MODES == {0, 1, 2, 3}

\* Variant: one more mode accepted.
PrintModesWide == {0, 1, 2, 3, 10}

PRINT_MODES == {0, 1, 2, 3}

\* The labels of RATE_MODES and of PRINT_MODES, by key.
RATE_MODES_LABELS ==
    0 :> "10 SEC RATE SEC/DAY" @@ 1 :> "2 MIN RATE SEC/DAY"
    @@ 2 :> "1 SEC RATE SEC/DAY" @@ 3 :> "RATE SEC/DAY"

\* Variant: the labels of modes 0 and 3 exchanged.
PrintModesLabelsSwapped ==
    0 :> "B 1S" @@ 1 :> "A 10S" @@ 2 :> "A 2M" @@ 3 :> "C"

PRINT_MODES_LABELS == 0 :> "C" @@ 1 :> "A 10S" @@ 2 :> "A 2M" @@ 3 :> "B 1S"

\* ------------------------------------------------------------- input sets

\* Bytes the for loop may be handed: the escape byte, the three commands,
\* the four print modes and one byte that is none of these.
ScanBytes == {0, 1, 2, 3, 10, ESC, CmdHeader, CmdValue, CmdTimestamp}

\* Byte read after ESC 0.
RateBytes == {0, 1, 2, 3, 4}

\* Flags byte of a value frame (byte3) and the byte read with it (ukn_flag).
FlagBytes == {0, 1, 2, 16, 32, 33, 48, 128, 129}

UknBytes == {0, ESC}

\* Bytes of the 3-byte payload of a value frame.
PayloadBytes == {0, 16, 26, 39, 153}

\* Bytes of a timestamp payload: hours, minutes, seconds, trailing 2 bytes.
HourBytes == {5}

MinuteBytes == {7}

SecondBytes == {42}

TrailerBytes == {<<ESC, CmdValue>>, <<ESC, CmdHeader>>}

\* ---------------------------------------------------------------- helpers

Prefixes(S) == UNION {{SubSeq(s, 1, k) : k \in 0..Len(s)} : s \in S}

IsPrefix(s, t) == Len(s) <= Len(t) /\ SubSeq(t, 1, Len(s)) = s

\* x & bit, for bit a power of two.
HasBit(x, bit) == (x \div bit) % 2 = 1

RECURSIVE Flatten(_)
Flatten(ss) == IF ss = << >> THEN << >> ELSE Head(ss) \o Flatten(Tail(ss))

\* ------------------------------------------------- pure parts of to_csv()

\* sign_chr = "+" if val > 0 else "-"
SignChr(val) == IF val > 0 THEN "+" ELSE "-"

\* f"{sign_chr} OUT OF RANGE", as its two parts.
OutOfRange(sign_chr) == << sign_chr, " OUT OF RANGE" >>

\* The loop over self.parsed_values: a None becomes the marker with the
\* sign_chr held, a value is kept and sets sign_chr.
RECURSIVE FormatValues(_, _)
FormatValues(values, sign_chr) ==
    IF values = << >> THEN << >>
    ELSE LET val == Head(values) IN
         IF val = None
         THEN << OutOfRange(sign_chr) >> \o FormatValues(Tail(values), sign_chr)
         ELSE << val >> \o FormatValues(Tail(values), SignChr(val[1]))

\* zip(a, b): pairs up to the end of the shorter list.
Zip(a, b) ==
    [i \in 1..(IF Len(a) < Len(b) THEN Len(a) ELSE Len(b)) |-> << a[i], b[i] >>]

\* ((val,) for val in formatted_values)
Singles(a) == [i \in 1..Len(a) |-> << a[i] >>]

\* ------------------------------------ pure part of build_wrapped_dataset()

Abs(val) == IF val < 0 THEN 0 - val ELSE val

\* The body of `for val in values`: what is appended to temp_values for val.
\* abs_val and cut are positive where // and % are applied.
WrappedValue(val, cut) ==
    LET abs_val == Abs(val) IN
    IF abs_val > cut
    THEN LET sign == IF val > 0 THEN 1 ELSE 0 - 1
             dividend == abs_val \div cut
             rem == abs_val % cut
         IN IF sign > 0
            THEN (rem + (0 - cut) + (dividend - 1) * cut) * sign
            ELSE rem * (0 - 1) + cut - (dividend - 1) * cut
    ELSE val

\* ------------------------------------------------- pure parts of parse()

\* Variant: the read stops at an escape byte.
ReadFromBufferUpToEscape(rest, length) ==
    IF Len(rest) >= length /\ \A i \in 1..length : rest[i] # ESC
    THEN SubSeq(rest, 1, length) ELSE None

\* read_from_buffer(length) when `rest` is what the iterator can still
\* deliver: the bytes, or None when the iterator runs out first.
ReadFromBuffer(rest, length) ==
    IF Len(rest) >= length THEN SubSeq(rest, 1, length) ELSE None

\* Variant: the sign bit is ignored.
SignIgnored(flags) == 1

\* sign = -1 if byte3 & 1 else 1
Sign(flags) == IF HasBit(flags, 1) THEN 0 - 1 ELSE 1

\* Variants: the error flag looked for in bit 6, or in the sign bit.
ScaleErrorBit6(flags) == HasBit(flags, 64)

ScaleErrorBit0(flags) == HasBit(flags, 1)

\* byte3 & 128 == 128
ScaleError(flags) == HasBit(flags, ErrorBit)

\* Variant: the sign bit kept in the gate mode.
GateModeWithSign(flags) == flags

\* gate_mode = byte3 & ~1
GateMode(flags) == flags - (flags % 2)

\* Variant: the Hz gate refused when bit4 is set.
GateKnownWithoutBit4(gate_mode) ==
    gate_mode = 0 \/ (HasBit(gate_mode, HzBit) /\ ~HasBit(gate_mode, 16))

\* gate_mode == 0 (seconds) or gate_mode & 32 == 32 (Hz); anything else
\* raises Exception.
GateKnown(gate_mode) == gate_mode = 0 \/ HasBit(gate_mode, HzBit)

\* hexlify(data): two hexadecimal digits per byte, as numbers 0..15.
RECURSIVE Hexlify(_)
Hexlify(bytes) ==
    IF bytes = << >> THEN << >>
    ELSE << Head(bytes) \div 16, Head(bytes) % 16 >> \o Hexlify(Tail(bytes))

\* Variant: the digits a..f parse too.
IntParsesHex(digits) == \A i \in 1..Len(digits) : digits[i] <= 15

\* int(text) reads decimal digits: a digit a..f raises ValueError.
IntParses(digits) == \A i \in 1..Len(digits) : digits[i] <= 9

\* Variant: the digits read in base 16.
RECURSIVE IntOfBase16(_)
IntOfBase16(digits) ==
    IF digits = << >> THEN 0
    ELSE 16 * IntOfBase16(SubSeq(digits, 1, Len(digits) - 1))
         + digits[Len(digits)]

RECURSIVE IntOf(_)
IntOf(digits) ==
    IF digits = << >> THEN 0
    ELSE 10 * IntOf(SubSeq(digits, 1, Len(digits) - 1)) + digits[Len(digits)]

\* Variant: the acquisition code kept in the measurement.
MeasureWithGate(bytes, flags) ==
    (IntOf(Hexlify(bytes)) + GateMode(flags) * 1000000) * Sign(flags)

\* measure = int(hexlify(data)) / 1000 * sign, in thousandths.
Measure(bytes, flags) == IntOf(Hexlify(bytes)) * Sign(flags)

\* Variant: the timestamp made of hours and minutes.
UnpackTimestampShifted(bytes) ==
    << bytes[1], bytes[1], bytes[2], bytes[4] * 256 + bytes[5] >>

\* unpack(">BBBH", data): hours, minutes, seconds, esc1_header.
UnpackTimestamp(bytes) ==
    << bytes[1], bytes[2], bytes[3], bytes[4] * 256 + bytes[5] >>

Digit(d) == << "0", "1", "2", "3", "4", "5", "6", "7", "8", "9" >>[d + 1]

\* str(val) for val >= 0.
RECURSIVE Decimal(_)
Decimal(val) ==
    IF val < 10 THEN << Digit(val) >>
    ELSE Decimal(val \div 10) \o << Digit(val % 10) >>

\* format(val, "#02"): zero-padded to a width of 2, longer if need be.
Format02(val) == IF val < 10 THEN << "0" >> \o Decimal(val) ELSE Decimal(val)

\* ":".join(map(lambda val: format(val, "#02"), (minutes, seconds)))
Timestamp(minutes, seconds) ==
    Format02(minutes) \o << ":" >> \o Format02(seconds)

\* Variant: a field that holds a value keeps it.
AssignOnce(field, val) == IF field = None THEN Some(val) ELSE field

\* Variant: the assignment is lost.
AssignLost(field, val) == field

\* self.rate_mode = data[0], self.print_mode = print_mode: the field holds
\* the new value, whatever it held.
Assign(field, val) == Some(val)

\* Variant: the item is inserted at the front.
InsertFront(list, item) == << item >> \o list

\* list.append
Append1(list, item) == Append(list, item)

\* ------------------------------------------------------------------ state

VARIABLES
    raw_data,           \* self.raw_data: the bytes of the file, or Unread
    calls,              \* calls of parse() made on this parser
    pc,                 \* "new", "loop", "returned" or "raised"
    exc,                \* the exception parse() raised, "" when none
    partial,            \* read_from_buffer printed "Partial data => reject"
    retval,             \* what parse() returned to its caller
    it_raw_data,        \* bytes the iterator it_raw_data has delivered
    escmode,
    seiko_mode,
    timestamp_mode,
    parsed_values,      \* self.parsed_values
    parsed_timestamps,  \* self.parsed_timestamps
    print_mode,         \* self.print_mode
    rate_mode,          \* self.rate_mode
    databyte,           \* locals of parse() as the last iteration of the
    data,               \* loop bound them; each is assigned before it is
    byte3,              \* read, so a name the iteration did not bind is
    ukn_flag,           \* kept as Unbound (data: None)
    method,             \* the method of SeikoQT2100GraphTool called last
    result,             \* how that call ended, "" before any call
    formatted_values,   \* to_csv: formatted_values
    csv_rows,           \* to_csv: the header and the rows written
    cumulated_values,   \* build_wrapped_dataset: values, as passed by
    cut_val,            \* build_graph_mode_a, and cut_val (Unbound and
    temp_values         \* empty before the call)

env == << raw_data, calls >>

ctl == << pc, exc, partial, retval, it_raw_data >>

flags == << escmode, seiko_mode, timestamp_mode >>

fields == << parsed_values, parsed_timestamps, print_mode, rate_mode >>

locals == << databyte, data, byte3, ukn_flag >>

tool == << method, result, formatted_values, csv_rows >>

wrap == << cumulated_values, cut_val, temp_values >>

vars == << env, ctl, flags, fields, locals, tool, wrap >>

\* ------------------------------------------------------------ label lookups

\* A lookup in a dict raises KeyError when the key is missing; None, the
\* value of an unset field, is no key of either table.
KeyOf(field, table) == field # None /\ field[1] \in DOMAIN table

\* get_rate_mode(): RATE_MODES[self.rate_mode]
get_rate_mode ==
    IF KeyOf(rate_mode, RATE_MODES_LABELS)
    THEN RATE_MODES_LABELS[rate_mode[1]] ELSE "KeyError"

\* get_print_mode(): PRINT_MODES[self.print_mode]
get_print_mode ==
    IF KeyOf(print_mode, PRINT_MODES_LABELS)
    THEN PRINT_MODES_LABELS[print_mode[1]] ELSE "KeyError"

\* ------------------------------------------------------- the file's bytes

Fixed == raw_data # Unread

\* What `for databyte in it_raw_data` can be handed next.
NextBytes ==
    IF Fixed
    THEN IF it_raw_data < Len(raw_data)
         THEN {raw_data[it_raw_data + 1]} ELSE {}
    ELSE IF it_raw_data < MaxLen THEN ScanBytes ELSE {}

\* What the iterator can deliver after that byte: the rest of the file, or
\* one of the windows W when the file is read as it comes.
Rests(W) ==
    IF Fixed
    THEN {SubSeq(raw_data, it_raw_data + 2, Len(raw_data))}
    ELSE {w \in W : it_raw_data + 1 + Len(w) <= MaxLen}

\* A window chosen as the file is read holds the bytes read and no more.
AllRead(rest, used) == Fixed \/ Len(rest) = used

HeaderWindows == Prefixes({<< r >> : r \in RateBytes})

TimestampWindows ==
    Prefixes({<< h, m, s >> \o t : h \in HourBytes, m \in MinuteBytes,
                                  s \in SecondBytes, t \in TrailerBytes})

ValueWindows ==
    Prefixes({<< f, u, p0, p1, p2 >> : f \in FlagBytes, u \in UknBytes,
              p0 \in PayloadBytes, p1 \in PayloadBytes, p2 \in PayloadBytes})

\* Frames a file is made of under SpecFile.
Frames ==
    { << ESC, CmdHeader, 0 >>,
      << ESC, CmdHeader, 3 >>,
      << ESC, CmdHeader, 4 >>,
      << ESC, CmdValue, 1, 0, 0, 0, 39, 16 >>,
      << ESC, CmdValue, 1, 0, 0, 0, 0, 0 >>,
      << ESC, CmdValue, 3, 33, 0, 153, 153, 153 >>,
      << ESC, CmdValue, 1, 0, 0, 0, 0, 26 >>,
      << ESC, CmdValue, 1, 16, 0, 0, 0, 0 >>,
      << ESC, CmdValue, 1, 0, ESC, 0, 39, 16 >>,
      << ESC, CmdValue, 2, 33, 0, 240, 0, 0 >>,
      << ESC, CmdValue, 10 >>,
      << ESC, CmdValue, 1, 129, 0 >>,
      << ESC, CmdValue, 1, 129 >>,
      << ESC, CmdTimestamp, 5, 7, 42, ESC, CmdValue, 2, 1, 0, 0, 0, 1 >>,
      << ESC, CmdTimestamp, 23, 7, 42, ESC, CmdValue, 1, 0, 0, 0, 39, 16 >>,
      << ESC, CmdTimestamp, 5, 200, 9, ESC, CmdValue, 3, 129, 0 >>,
      << ESC, CmdTimestamp, 5, 7, 42, ESC, CmdValue, 2, 1, 0, 0, 0, 1,
         ESC, CmdValue, 2, 0, 0, 0, 0, 2 >>,
      << ESC, CmdTimestamp, 5, 7, 42, ESC, CmdHeader >>,
      << 10 >> }

FrameSeqs(F) == UNION {[1..k -> F] : k \in 0..MaxFrames}

Files == Prefixes({Flatten(fs) : fs \in FrameSeqs(Frames)})

\* ------------------------------------------------------------------- Init

InitParser ==
    /\ calls = 0
    /\ pc = "new"
    /\ exc = ""
    /\ partial = FALSE
    /\ retval = None
    /\ it_raw_data = 0
    /\ escmode = FALSE
    /\ seiko_mode = FALSE
    /\ timestamp_mode = FALSE
    /\ parsed_values = << >>
    /\ parsed_timestamps = << >>
    /\ print_mode = None
    /\ rate_mode = None
    /\ databyte = Unbound
    /\ data = None
    /\ byte3 = Unbound
    /\ ukn_flag = Unbound

\* No method of SeikoQT2100GraphTool has been called yet.
InitTool ==
    /\ method = ""
    /\ result = ""
    /\ formatted_values = << >>
    /\ csv_rows = << >>

\* build_wrapped_dataset has not been called.
NoWrap ==
    /\ cumulated_values = << >>
    /\ cut_val = Unbound
    /\ temp_values = << >>

Init == raw_data = Unread /\ InitParser /\ InitTool /\ NoWrap

InitFile == raw_data \in Files /\ InitParser /\ InitTool /\ NoWrap

\* ---------------------------------------------------- outcomes of a step

\* Variant: the iteration goes on without moving the iterator.
ContinueInPlace(used) ==
    /\ pc' = "loop"
    /\ it_raw_data' = it_raw_data
    /\ UNCHANGED << exc, partial, retval >>

\* `continue`, or the end of the loop body: on to the next byte.
Continue(used) ==
    /\ pc' = "loop"
    /\ it_raw_data' = it_raw_data + used
    /\ UNCHANGED << exc, partial, retval >>

\* read_from_buffer returned None (the iterator is exhausted): `return`.
ReturnPartial(rest) ==
    /\ pc' = "returned"
    /\ partial' = TRUE
    /\ retval' = None
    /\ it_raw_data' = it_raw_data + 1 + Len(rest)
    /\ UNCHANGED exc

\* An exception leaves parse().
Raise(e, used) ==
    /\ pc' = "raised"
    /\ exc' = e
    /\ it_raw_data' = it_raw_data + used
    /\ UNCHANGED << partial, retval >>

\* Variant: the teardown leaves the escape pending.
TearDownKeepsEscape ==
    /\ escmode' = escmode
    /\ seiko_mode' = FALSE
    /\ timestamp_mode' = FALSE

\* escmode = False; seiko_mode = False; timestamp_mode = False
TearDown ==
    /\ escmode' = FALSE
    /\ seiko_mode' = FALSE
    /\ timestamp_mode' = FALSE

\* The iteration read no flags byte, or nothing at all.
NoFlagsRead == byte3' = Unbound /\ ukn_flag' = Unbound

NoRead == data' = None /\ NoFlagsRead

\* ---------------------------------------------------------------- actions

\* A call of parse(): by SeikoQT2100GraphTool.__init__, or by a caller that
\* already holds a parsed parser.  Only a file fixed in advance can be read
\* a second time.
ParseCall ==
    /\ pc \in {"new", "returned"}
    /\ calls < MaxCalls
    /\ Fixed \/ calls = 0
    /\ calls' = calls + 1
    /\ pc' = "loop"
    /\ exc' = ""
    /\ partial' = FALSE
    /\ retval' = None
    /\ it_raw_data' = 0
    /\ TearDown
    /\ databyte' = Unbound
    /\ NoRead
    /\ UNCHANGED << raw_data, fields >>
    /\ UNCHANGED << tool, wrap >>

\* if databyte == 0x1B: escmode = True; continue
IterEscape(b) ==
    /\ pc = "loop"
    /\ b = ESC
    /\ databyte' = b
    /\ escmode' = TRUE
    /\ Continue(1)
    /\ NoRead
    /\ UNCHANGED << env, seiko_mode, timestamp_mode, fields >>
    /\ UNCHANGED << tool, wrap >>

\* ESC 0: the header.  The branch has no `continue`: with a frame armed the
\* byte '0' goes on into the value branch, where it is no print mode.
IterHeader(b) ==
    /\ pc = "loop"
    /\ b = CmdHeader
    /\ escmode
    /\ databyte' = b
    /\ \E rest \in Rests(HeaderWindows) :
       LET rd == ReadFromBuffer(rest, 1) IN
       /\ data' = rd
       /\ IF rd = None
          THEN /\ ReturnPartial(rest)
               /\ UNCHANGED << flags, rate_mode >>
          ELSE /\ AllRead(rest, 1)
               /\ rate_mode' = Assign(rate_mode, rd[1])
               /\ IF rd[1] \notin RATE_MODES
                  THEN Raise("KeyError", 2) /\ UNCHANGED flags
                  ELSE IF seiko_mode \/ timestamp_mode
                  THEN Raise("AssertionError", 2) /\ UNCHANGED flags
                  ELSE Continue(2) /\ TearDown
    /\ NoFlagsRead
    /\ UNCHANGED << env, parsed_values, parsed_timestamps, print_mode >>
    /\ UNCHANGED << tool, wrap >>

\* ESC 1: seiko_mode = True; continue
IterEsc1(b) ==
    /\ pc = "loop"
    /\ b = CmdValue
    /\ escmode
    /\ databyte' = b
    /\ seiko_mode' = TRUE
    /\ Continue(1)
    /\ NoRead
    /\ UNCHANGED << env, escmode, timestamp_mode, fields >>
    /\ UNCHANGED << tool, wrap >>

\* ESC T: the timestamp and the ESC 1 that follows it.
IterTimestamp(b) ==
    /\ pc = "loop"
    /\ b = CmdTimestamp
    /\ escmode
    /\ databyte' = b
    /\ timestamp_mode' = TRUE
    /\ \E rest \in Rests(TimestampWindows) :
       LET rd == ReadFromBuffer(rest, 5) IN
       IF rd = None
       THEN /\ data' = None
            /\ ReturnPartial(rest)
            /\ UNCHANGED parsed_timestamps
       ELSE LET t == UnpackTimestamp(rd) IN
            /\ AllRead(rest, 5)
            /\ data' = t
            /\ IF t[4] # Esc1Header
               THEN Raise("AssertionError", 6) /\ UNCHANGED parsed_timestamps
               ELSE /\ parsed_timestamps' =
                          Append1(parsed_timestamps, Timestamp(t[2], t[3]))
                    /\ Continue(6)
    /\ NoFlagsRead
    /\ UNCHANGED << env, escmode, seiko_mode, parsed_values, print_mode,
                    rate_mode >>
    /\ UNCHANGED << tool, wrap >>

\* The value frame: mode byte, flags byte and the byte read with it, then
\* the 3 payload bytes unless the flags byte carries the error bit.
IterValue(b) ==
    /\ pc = "loop"
    /\ b \notin {ESC, CmdHeader, CmdValue, CmdTimestamp}
    /\ escmode /\ (seiko_mode \/ timestamp_mode)
    /\ databyte' = b
    /\ \E rest \in Rests(ValueWindows) :
       IF b \notin PRINT_MODES
       THEN /\ AllRead(rest, 0)
            /\ Raise("AssertionError", 1)
            /\ NoRead
            /\ UNCHANGED << flags, parsed_values, print_mode >>
       ELSE
       /\ print_mode' = Assign(print_mode, b)
       /\ LET rd == ReadFromBuffer(rest, 2) IN
          IF rd = None
          THEN /\ NoRead
               /\ ReturnPartial(rest)
               /\ UNCHANGED << flags, parsed_values >>
          ELSE
          /\ byte3' = rd[1]
          /\ ukn_flag' = rd[2]
          /\ IF ScaleError(rd[1])
             THEN /\ AllRead(rest, 2)
                  /\ data' = rd
                  /\ parsed_values' = Append1(parsed_values, None)
                  /\ Continue(3)
                  /\ UNCHANGED flags
             ELSE IF ~GateKnown(GateMode(rd[1]))
             THEN /\ AllRead(rest, 2)
                  /\ data' = rd
                  /\ Raise("Exception", 3)
                  /\ UNCHANGED << flags, parsed_values >>
             ELSE LET rd3 == ReadFromBuffer(SubSeq(rest, 3, Len(rest)), 3) IN
                  /\ data' = rd3
                  /\ IF rd3 = None
                     THEN /\ ReturnPartial(rest)
                          /\ UNCHANGED << flags, parsed_values >>
                     ELSE /\ AllRead(rest, 5)
                          /\ IF ~IntParses(Hexlify(rd3))
                             THEN /\ Raise("ValueError", 6)
                                  /\ UNCHANGED << flags, parsed_values >>
                             ELSE /\ parsed_values' =
                                        Append1(parsed_values,
                                                Some(Measure(rd3, rd[1])))
                                  /\ Continue(6)
                                  /\ TearDown
    /\ UNCHANGED << env, parsed_timestamps, rate_mode >>
    /\ UNCHANGED << tool, wrap >>

\* Any other byte only tears the flags down.
IterOther(b) ==
    /\ pc = "loop"
    /\ b # ESC
    /\ ~(escmode /\ b \in {CmdHeader, CmdValue, CmdTimestamp})
    /\ ~(escmode /\ (seiko_mode \/ timestamp_mode))
    /\ databyte' = b
    /\ TearDown
    /\ Continue(1)
    /\ NoRead
    /\ UNCHANGED << env, fields >>
    /\ UNCHANGED << tool, wrap >>

\* The for loop finds the iterator exhausted: parse() returns None.
EndOfBuffer ==
    /\ pc = "loop"
    /\ Fixed => it_raw_data = Len(raw_data)
    /\ pc' = "returned"
    /\ retval' = None
    /\ UNCHANGED << env, exc, partial, it_raw_data, flags, fields, locals >>
    /\ UNCHANGED << tool, wrap >>

\* ------------------------------------------------ SeikoQT2100GraphTool

\* to_csv(): the values are formatted, then the header is built from the
\* rate label (a KeyError when the rate mode is no key of RATE_MODES), then
\* the header and the rows are written.
ToCsv ==
    /\ pc = "returned"
    /\ method' = "to_csv"
    /\ formatted_values' = FormatValues(parsed_values, "+")
    /\ IF get_rate_mode = "KeyError"
       THEN result' = "KeyError" /\ UNCHANGED csv_rows
       ELSE /\ result' = "written"
            /\ csv_rows' =
                 IF parsed_timestamps # << >>
                 THEN << << "Time Stamp", get_rate_mode >> >>
                      \o Zip(parsed_timestamps, formatted_values')
                 ELSE << << get_rate_mode >> >> \o Singles(formatted_values')
    /\ UNCHANGED << env, ctl, flags, fields, locals, wrap >>

\* to_graph(): the builder is chosen by the label of the print mode (a
\* KeyError when the print mode is no key of PRINT_MODES).  What the
\* builders draw is not modelled: result is the builder called.
ToGraph ==
    /\ pc = "returned"
    /\ method' = "to_graph"
    /\ result' =
         IF get_print_mode = "KeyError" THEN "KeyError"
         ELSE IF get_print_mode \in {"A 10S", "A 2M"} THEN "build_graph_mode_a"
         ELSE IF get_print_mode = "B 1S" THEN "build_graph_mode_b"
         ELSE "NotImplementedError"
    /\ UNCHANGED << env, ctl, flags, fields, locals, formatted_values,
                    csv_rows, wrap >>

Next ==
    \/ ParseCall
    \/ EndOfBuffer
    \/ \E b \in NextBytes : IterEscape(b)
    \/ \E b \in NextBytes : IterEsc1(b)
    \/ \E b \in NextBytes : IterOther(b)
    \/ \E b \in NextBytes : IterHeader(b)
    \/ \E b \in NextBytes : IterTimestamp(b)
    \/ \E b \in NextBytes : IterValue(b)
    \/ ToCsv
    \/ ToGraph

Spec == Init /\ [][Next]_vars

SpecFile == InitFile /\ [][Next]_vars

\* An iteration of the for loop, or its end.
Scan == pc = "loop" /\ Next

\* Frames of the files the scan is followed on to its end: one of each kind
\* of frame, and one for each way a frame makes the pass fail.
ScanFrames ==
    { << ESC, CmdHeader, 0 >>,
      << ESC, CmdHeader, 4 >>,
      << ESC, CmdValue, 1, 0, 0, 0, 39, 16 >>,
      << ESC, CmdValue, 1, 0, 0, 0, 0, 26 >>,
      << ESC, CmdValue, 1, 16, 0, 0, 0, 0 >>,
      << ESC, CmdValue, 10 >>,
      << ESC, CmdValue, 1, 129, 0 >>,
      << ESC, CmdTimestamp, 5, 7, 42, ESC, CmdValue, 2, 1, 0, 0, 0, 1 >>,
      << 10 >> }

InitScan ==
    /\ raw_data \in Prefixes({Flatten(fs) : fs \in FrameSeqs(ScanFrames)})
    /\ InitParser
    /\ InitTool
    /\ NoWrap

\* The pass over a file, the interpreter running the loop as long as it can.
SpecScan == InitScan /\ [][Next]_vars /\ WF_vars(Scan)

\* ------------------------------------------------ build_wrapped_dataset

\* The values and the positive cut_val the function is called with.
WrapValues == (0 - MaxValue)..MaxValue

WrapLists == UNION {[1..k -> WrapValues] : k \in 0..MaxValues}

CutVals == {1, 2, 3}

InitWrap ==
    /\ raw_data = Unread
    /\ InitParser
    /\ InitTool
    /\ cumulated_values \in WrapLists
    /\ cut_val \in CutVals
    /\ temp_values = << >>

\* One iteration of `for val in values`: temp_values.append(val).
WrapIteration ==
    /\ Len(temp_values) < Len(cumulated_values)
    /\ temp_values' =
          Append(temp_values,
                 WrappedValue(cumulated_values[Len(temp_values) + 1], cut_val))
    /\ UNCHANGED << cumulated_values, cut_val >>
    /\ UNCHANGED << env, ctl, flags, fields, locals, tool >>

\* The loop is over: `return temp_values`.
WrapReturned == Len(temp_values) = Len(cumulated_values)

SpecWrap == InitWrap /\ [][WrapIteration]_vars

\* ================================================================= claims

\* A frame is armed: the next byte is in the mode position of a value frame.
Armed == escmode /\ (seiko_mode \/ timestamp_mode)

\* The step is an iteration of the loop: it took bytes from the iterator.
IterStep == pc = "loop" /\ it_raw_data' > it_raw_data

SignBit(f) == IF f % 2 = 1 THEN 0 - 1 ELSE 1

AcquisitionAccepted(f) == f - (f % 2) = 0 \/ (f \div 32) % 2 = 1

\* The step decoded an armed value frame: print mode, flags byte with bit7
\* clear and accepted acquisition bits, and the 3 payload bytes (data').
ValueFrameRead ==
    /\ IterStep /\ Armed
    /\ databyte' \in {0, 1, 2, 3}
    /\ byte3' # Unbound
    /\ (byte3' \div 128) % 2 = 0
    /\ AcquisitionAccepted(byte3')
    /\ Len(data') = 3

Last(list) == list[Len(list)]

HexValue(b) == b[1] * 65536 + b[2] * 256 + b[3]

\* The six nibbles of the payload read as six decimal digits.
NibbleDecimal(b) ==
    ((b[1] \div 16) * 10 + (b[1] % 16)) * 10000
    + ((b[2] \div 16) * 10 + (b[2] % 16)) * 100
    + ((b[3] \div 16) * 10 + (b[3] % 16))

AllNibblesDecimal(b) ==
    \A i \in 1..Len(b) : b[i] \div 16 <= 9 /\ b[i] % 16 <= 9

\* C1 as stated: every armed value frame with bit7 clear and accepted
\* acquisition bits appends exactly one measurement, the payload read as a
\* big-endian binary number (b0*65536 + b1*256 + b2) over 1000, times the
\* sign of bit0.
C1_HexMeasurement ==
    [][ValueFrameRead =>
         parsed_values' =
            Append(parsed_values, Some(HexValue(data') * SignBit(byte3')))]_vars

\* C1 as amended: when every nibble of the payload is a decimal digit, the
\* frame appends exactly one measurement, the six nibbles read as six decimal
\* digits over 1000, times -1 if bit0 of the flags byte is set and +1
\* otherwise, and the scan goes on; when a nibble is above 9, parse() raises
\* ValueError and appends nothing.
C1_DecimalMeasurement ==
    [][/\ (ValueFrameRead /\ AllNibblesDecimal(data')) =>
            /\ pc' = "loop"
            /\ parsed_values' =
                  Append(parsed_values,
                         Some(NibbleDecimal(data') * SignBit(byte3')))
       /\ (ValueFrameRead /\ ~AllNibblesDecimal(data')) =>
            /\ pc' = "raised"
            /\ exc' = "ValueError"
            /\ parsed_values' = parsed_values]_vars

\* The buffer ESC '0' 00, ESC '1', 01 00 00 00 27 10 has been parsed: one
\* measurement, +2.710.
C1_Witness ==
    /\ pc = "loop" /\ it_raw_data = 11
    /\ rate_mode = Some(0) /\ print_mode = Some(1)
    /\ databyte = 1 /\ byte3 = 0 /\ ukn_flag = 0 /\ data = << 0, 39, 16 >>
    /\ parsed_values = << Some(2710) >>

\* The step read the flags byte of an armed value frame and bit7 is set.
ErrorFrameRead ==
    /\ IterStep /\ Armed
    /\ databyte' \in {0, 1, 2, 3}
    /\ byte3' # Unbound
    /\ (byte3' \div 128) % 2 = 1

\* C2 as stated: an armed value frame whose flags byte has bit7 set appends
\* exactly one None and consumes exactly 2 bytes (mode byte and flags byte).
C2_ErrorFrameTwoBytes ==
    [][ErrorFrameRead =>
         /\ parsed_values' = Append(parsed_values, None)
         /\ it_raw_data' = it_raw_data + 2]_vars

\* C2 as amended: such a frame appends exactly one None and consumes exactly
\* 3 bytes, the mode byte, the flags byte and the byte read together with
\* it; when the buffer ends before that third byte nothing is appended and
\* parse() returns on the partial read.
C2_ErrorFrameThreeBytes ==
    [][/\ ErrorFrameRead =>
            /\ parsed_values' = Append(parsed_values, None)
            /\ it_raw_data' = it_raw_data + 3
            /\ pc' = "loop"
       /\ (/\ IterStep /\ Armed
           /\ databyte' \in {0, 1, 2, 3}
           /\ it_raw_data' <= it_raw_data + 2) =>
            /\ parsed_values' = parsed_values
            /\ pc' = "returned"
            /\ partial']_vars

\* ESC '1', mode 1, flags 0x81 and one more byte have been read: one None.
C2_Witness ==
    /\ pc = "loop" /\ it_raw_data = 5
    /\ databyte = 1 /\ byte3 = 129
    /\ parsed_values = << None >>

\* C3: after parse() has returned, a non-empty parsed_timestamps has as many
\* entries as parsed_values.
C3_TimestampPerMeasurement ==
    (pc = "returned" /\ parsed_timestamps # << >>) =>
        Len(parsed_timestamps) = Len(parsed_values)

\* C4: a second call of parse() on the same parser leaves the results as the
\* first call left them.  The two lists only grow (C7), so they are the same
\* after the call exactly when no step of the call changes them.
C4_SecondParseChangesNothing ==
    [][calls' >= 2 =>
         UNCHANGED << parsed_values, parsed_timestamps >>]_vars

\* C5: every measurement that is not None has a magnitude of at most
\* 999.999, in every state during and after parse().
C5_MagnitudeBound ==
    \A i \in 1..Len(parsed_values) :
        parsed_values[i] # None =>
            /\ parsed_values[i][1] <= 999999
            /\ parsed_values[i][1] >= 0 - 999999

\* A measurement of magnitude 999.999 has been parsed.
C5_Witness ==
    /\ parsed_values # << >>
    /\ Last(parsed_values) = Some(0 - 999999)
    /\ data = << 153, 153, 153 >>

\* C6: a step that appends None has read a flags byte with bit7 set, and a
\* step that has read a flags byte with bit7 clear appends no None.
C6_NoneOnlyFromErrorFlag ==
    [][/\ (/\ pc = "loop"
           /\ Len(parsed_values') > Len(parsed_values)
           /\ Last(parsed_values') = None) =>
            (byte3' # Unbound /\ (byte3' \div 128) % 2 = 1)
       /\ (/\ IterStep /\ Armed
           /\ byte3' # Unbound
           /\ (byte3' \div 128) % 2 = 0) =>
            \A i \in (Len(parsed_values) + 1)..Len(parsed_values') :
                parsed_values'[i] # None]_vars

\* A None has been appended by a frame whose flags byte is 0x80.
C6_Witness ==
    /\ pc = "loop"
    /\ byte3 = 128
    /\ parsed_values # << >>
    /\ Last(parsed_values) = None

\* C7: no step removes or changes an entry of parsed_values or of
\* parsed_timestamps, a step in which a multi-byte read runs out of buffer
\* ends the pass at once, and every step that ends the pass leaves both
\* lists as they were.  A prefix P of a buffer B is parsed like B up to the
\* iteration in which P ends, so what P gives is what B had at the start of
\* that iteration, and by this property a prefix of what B gives.
C7_UnderrunKeepsResults ==
    [][/\ IsPrefix(parsed_values, parsed_values')
       /\ IsPrefix(parsed_timestamps, parsed_timestamps')
       /\ (partial' /\ ~partial) => pc' = "returned"
       /\ (pc = "loop" /\ pc' = "returned") =>
            /\ parsed_values' = parsed_values
            /\ parsed_timestamps' = parsed_timestamps
       /\ pc \in {"returned", "raised"} => pc' # pc \/ UNCHANGED fields]_vars

\* The buffer ran out inside a frame after a measurement and a timestamp
\* had been appended.
C7_Witness ==
    /\ pc = "returned" /\ partial
    /\ parsed_values # << >>
    /\ parsed_timestamps # << >>

\* C8: a pass that ended on a partial read hands its caller something that
\* tells it from a pass over a complete buffer.  All parse() hands back is
\* its return value.
C8_TruncationIndicated ==
    (pc = "returned" /\ partial) => retval # None

\* Frames of the library that follow the wire grammar.
WellFormedFrames ==
    { << ESC, CmdHeader, 0 >>,
      << ESC, CmdValue, 1, 0, 0, 0, 39, 16 >>,
      << ESC, CmdValue, 3, 33, 0, 153, 153, 153 >>,
      << ESC, CmdValue, 1, 129, 0 >>,
      << ESC, CmdValue, 1, 129 >>,
      << ESC, CmdTimestamp, 5, 7, 42, ESC, CmdValue, 2, 1, 0, 0, 0, 1 >> }

WellFormedFile(file) ==
    \E fs \in FrameSeqs(WellFormedFrames) : IsPrefix(file, Flatten(fs))

\* C9: parse() raises nothing on a prefix of a stream of well-formed frames.
C9_WellFormedNeverFails ==
    WellFormedFile(raw_data) => pc # "raised"

\* C10 as stated: a byte other than 0, 1, 2, 3 in the mode position of an
\* armed value frame makes parse() fail, with no measurement appended and
\* print_mode as it was.
C10_BadModeFails ==
    [][(IterStep /\ Armed /\ databyte' \notin {0, 1, 2, 3}) =>
         /\ pc' = "raised"
         /\ parsed_values' = parsed_values
         /\ print_mode' = print_mode]_vars

\* C10 as amended: so does every such byte that is not the escape byte or
\* one of the command bytes '0', '1', 'T', which the scan takes as an escape
\* or a command while escmode is still set; and print_mode is unset or one
\* of 0, 1, 2, 3 in every state.
C10_BadModeFailsUnlessCommand ==
    /\ [][(/\ IterStep /\ Armed
           /\ databyte' \notin {0, 1, 2, 3, 27, 48, 49, 84}) =>
            /\ pc' = "raised"
            /\ exc' = "AssertionError"
            /\ parsed_values' = parsed_values
            /\ print_mode' = print_mode]_vars
    /\ [](print_mode \in {None} \cup {Some(m) : m \in {0, 1, 2, 3}})

\* A second frame with the byte 0x0A in the mode position has failed and
\* print_mode is still that of the first frame.
C10_Witness ==
    /\ pc = "raised" /\ exc = "AssertionError"
    /\ databyte = 10
    /\ print_mode = Some(1)
    /\ parsed_values # << >>

\* The step read the whole 5-byte payload of a timestamp frame (ESC 'T'):
\* data' is the payload unpacked into hours, minutes, seconds and the
\* 16-bit value of its last 2 bytes.
TimestampFrameRead ==
    /\ IterStep /\ escmode
    /\ databyte' = 84
    /\ Len(data') = 4

\* C11: a timestamp frame whose payload does not end with 0x1B 0x31 makes
\* parse() fail with no timestamp appended; one whose payload ends with
\* 0x1B 0x31 appends exactly one timestamp and the scan goes on.
C11_TimestampTrailerChecked ==
    [][TimestampFrameRead =>
         IF data'[4] = 27 * 256 + 49
         THEN /\ pc' = "loop"
              /\ Len(parsed_timestamps') = Len(parsed_timestamps) + 1
              /\ IsPrefix(parsed_timestamps, parsed_timestamps')
         ELSE /\ pc' = "raised"
              /\ exc' = "AssertionError"
              /\ parsed_timestamps' = parsed_timestamps]_vars

\* A timestamp frame ending with 0x1B 0x30 has failed, nothing appended.
C11_Witness ==
    /\ pc = "raised" /\ exc = "AssertionError"
    /\ databyte = 84
    /\ data = << 5, 7, 42, 27 * 256 + 48 >>
    /\ parsed_timestamps = << >>

\* The step read the rate byte of a header frame (ESC '0' r): data' is << r >>.
HeaderFrameRead ==
    /\ IterStep /\ escmode
    /\ databyte' = 48
    /\ Len(data') = 1

\* C12: a header frame ESC '0' r with r in 0..3 sets the rate mode to r, and
\* its label is the entry of the fixed table; with any other r parse() fails.
C12_HeaderRateMode ==
    [][HeaderFrameRead =>
         LET r == data'[1] IN
         IF r \in {0, 1, 2, 3}
         THEN /\ rate_mode' = Some(r)
              /\ get_rate_mode' =
                   CASE r = 0 -> "10 SEC RATE SEC/DAY"
                     [] r = 1 -> "2 MIN RATE SEC/DAY"
                     [] r = 2 -> "1 SEC RATE SEC/DAY"
                     [] r = 3 -> "RATE SEC/DAY"
         ELSE pc' = "raised" /\ exc' = "KeyError"]_vars

\* The header ESC '0' 03 has been read: rate mode 3, label 'RATE SEC/DAY'.
C12_Witness ==
    /\ pc = "loop"
    /\ databyte = 48 /\ data = << 3 >>
    /\ rate_mode = Some(3)
    /\ get_rate_mode = "RATE SEC/DAY"

\* C13: after a parse() that returned, the label lookups of the consumers
\* (get_rate_mode, get_print_mode) do not fail.
C13_LookupsNeverFail ==
    pc = "returned" =>
        get_rate_mode # "KeyError" /\ get_print_mode # "KeyError"

\* Complete frames in which the value frame is introduced by a timestamp
\* frame, and a header frame.
TimestampedFrames ==
    { << ESC, CmdHeader, 0 >>,
      << ESC, CmdTimestamp, 5, 7, 42, ESC, CmdValue, 2, 1, 0, 0, 0, 1 >>,
      << ESC, CmdTimestamp, 23, 7, 42, ESC, CmdValue, 1, 0, 0, 0, 39, 16 >>,
      << ESC, CmdTimestamp, 5, 200, 9, ESC, CmdValue, 3, 129, 0 >> }

\* val zero-padded to two digits (three digits from 100 on).
TwoDigits(val) ==
    IF val < 100
    THEN << Digit(val \div 10), Digit(val % 10) >>
    ELSE << Digit(val \div 100), Digit((val \div 10) % 10), Digit(val % 10) >>

\* The timestamps of a sequence of such frames, frame by frame: minute and
\* second (bytes 4 and 5 of the frame), the hour (byte 3) left out.
RECURSIVE FrameTimestamps(_)
FrameTimestamps(fs) ==
    IF fs = << >> THEN << >>
    ELSE LET f == Head(fs) IN
         (IF f[2] = 84
          THEN << TwoDigits(f[4]) \o << ":" >> \o TwoDigits(f[5]) >>
          ELSE << >>) \o FrameTimestamps(Tail(fs))

\* The measurements of their value frames, frame by frame.
RECURSIVE FrameMeasurements(_)
FrameMeasurements(fs) ==
    IF fs = << >> THEN << >>
    ELSE LET f == Head(fs) IN
         (IF f[2] # 84 THEN << >>
          ELSE IF f[9] \div 128 = 1 THEN << None >>
          ELSE << Some(NibbleDecimal(<< f[11], f[12], f[13] >>)
                       * SignBit(f[9])) >>) \o FrameMeasurements(Tail(fs))

ModeByteAccepted ==
    /\ IterStep /\ Armed
    /\ databyte' \in {0, 1, 2, 3}

\* C16: rate_mode is written by every header frame whose rate byte is read,
\* with that byte, and by nothing else; print_mode is written by every
\* value frame whose mode byte is accepted, with that byte, and by nothing
\* else; and a frame that carries another code than the one held is decoded
\* like any other: a header met outside an armed frame with a code of the
\* table, and a value frame with decimal payload, let the scan go on.
C16_LastWriteWins ==
    [][/\ HeaderFrameRead => rate_mode' = Some(data'[1])
       /\ rate_mode' # rate_mode => HeaderFrameRead
       /\ ModeByteAccepted => print_mode' = Some(databyte')
       /\ print_mode' # print_mode => ModeByteAccepted
       /\ (/\ HeaderFrameRead /\ ~Armed
           /\ data'[1] \in {0, 1, 2, 3}
           /\ rate_mode \notin {None, Some(data'[1])}) => pc' = "loop"
       /\ (/\ ValueFrameRead /\ AllNibblesDecimal(data')
           /\ print_mode \notin {None, Some(databyte')}) => pc' = "loop"]_vars

\* The file is a value frame of mode 1 and a value frame of mode 3: parse()
\* has returned with both measurements and print mode 3.
C16_Witness ==
    /\ raw_data = << 27, 49, 1, 0, 0, 0, 39, 16,
                     27, 49, 3, 33, 0, 153, 153, 153 >>
    /\ pc = "returned"
    /\ Len(parsed_values) = 2
    /\ print_mode = Some(3)

\* The step is a call of to_csv() on a parser whose parse() has returned.
ToCsvStep == pc = "returned" /\ pc' = "returned" /\ method' = "to_csv"

\* The non-None measurements before index i.
EarlierValues(i) == {j \in 1..(i - 1) : parsed_values[j] # None}

\* The sign of the nearest non-None measurement before index i, '+' when
\* there is none.  A measurement of 0.000 is that of a frame whose sign bit
\* is clear (every such frame of Frames is), so its sign is '+'.
SignBefore(i) ==
    IF EarlierValues(i) = {} THEN "+"
    ELSE LET k == CHOOSE j \in EarlierValues(i) :
                     \A l \in EarlierValues(i) : l <= j
         IN IF parsed_values[k][1] >= 0 THEN "+" ELSE "-"

\* C17: to_csv() writes every None measurement as '<sign> OUT OF RANGE', the
\* sign being that of the nearest earlier non-None measurement and '+' when
\* there is none, and every other measurement unchanged.
C17_OutOfRangeSign ==
    [][ToCsvStep =>
         /\ Len(formatted_values') = Len(parsed_values)
         /\ \A i \in 1..Len(parsed_values) :
               IF parsed_values[i] # None
               THEN formatted_values'[i] = parsed_values[i]
               ELSE /\ Len(formatted_values'[i]) = 2
                    /\ formatted_values'[i][1] = SignBefore(i)
                    /\ formatted_values'[i][2] = " OUT OF RANGE"]_vars

\* The step is a call of to_graph() on a parser whose parse() has returned.
ToGraphStep == pc = "returned" /\ pc' = "returned" /\ method' = "to_graph"

\* C18: to_graph() goes by the print mode held after parse() and by nothing
\* else: modes 1 and 2 ('A 10S', 'A 2M') call the builder of the mode-A
\* graph, mode 3 ('B 1S') the builder of the mode-B graph, and mode 0 ('C')
\* calls no builder and raises NotImplementedError.
C18_GraphDispatch ==
    [][(ToGraphStep /\ print_mode # None) =>
         /\ result' =
              CASE print_mode[1] \in {1, 2} -> "build_graph_mode_a"
                [] print_mode[1] = 3 -> "build_graph_mode_b"
                [] print_mode[1] = 0 -> "NotImplementedError"
         /\ get_print_mode \in {"A 10S", "A 2M"} <=>
                result' = "build_graph_mode_a"
         /\ get_print_mode = "B 1S" <=> result' = "build_graph_mode_b"
         /\ get_print_mode = "C" <=> result' = "NotImplementedError"
         /\ UNCHANGED << fields, formatted_values, csv_rows >>]_vars

\* to_graph() has been called with print mode 0 ('C') after a decoded value
\* frame: NotImplementedError.
C18_Witness ==
    /\ pc = "returned"
    /\ method = "to_graph"
    /\ print_mode = Some(0)
    /\ parsed_values # << >>
    /\ result = "NotImplementedError"

\* C19: a step that takes the mode byte of an armed value frame and appends
\* a value or None leaves all three scan flags false.
C19_FlagsTornDown ==
    [][(/\ ModeByteAccepted
        /\ Len(parsed_values') = Len(parsed_values) + 1) =>
         (~escmode' /\ ~seiko_mode' /\ ~timestamp_mode')]_vars

\* C20: an escape byte met while a frame is armed disarms it, and a header
\* frame ESC '0' r with r in 0..3, the one of ESC '1' ESC '0' r included,
\* sets the rate mode to r, leaves all three flags false, appends nothing
\* and lets the scan go on.
C20_EscapeStartsFreshFrame ==
    [][/\ (IterStep /\ Armed /\ databyte' = 27) =>
            (~seiko_mode' /\ ~timestamp_mode')
       /\ (HeaderFrameRead /\ data'[1] \in {0, 1, 2, 3}) =>
            /\ rate_mode' = Some(data'[1])
            /\ pc' = "loop"
            /\ ~escmode' /\ ~seiko_mode' /\ ~timestamp_mode'
            /\ parsed_values' = parsed_values]_vars

\* The step read the flags byte of an armed value frame and bit7 is clear.
FlagsRead ==
    /\ IterStep /\ Armed
    /\ databyte' \in {0, 1, 2, 3}
    /\ byte3' # Unbound
    /\ (byte3' \div 128) % 2 = 0

\* f with bit4 (0x10) cleared.
WithoutBit4(f) == f - ((f \div 16) % 2) * 16

\* The outcome of a step that read the flags byte f0 is the one of a frame
\* whose acquisition bits are those of f: it fails on the flags byte, with
\* Exception, nothing appended and 3 bytes consumed, exactly when f is not
\* accepted; otherwise it reads the payload and, when that is complete and
\* decimal, appends the measurement signed by bit0 and has consumed 6 bytes.
OutcomeAsFor(f) ==
    /\ (pc' = "raised" /\ exc' = "Exception") <=> ~AcquisitionAccepted(f)
    /\ ~AcquisitionAccepted(f) =>
          /\ parsed_values' = parsed_values
          /\ it_raw_data' = it_raw_data + 3
    /\ (/\ AcquisitionAccepted(f) /\ Len(data') = 3
        /\ AllNibblesDecimal(data')) =>
          /\ parsed_values' =
               Append(parsed_values,
                      Some(NibbleDecimal(data') * SignBit(byte3')))
          /\ it_raw_data' = it_raw_data + 6
          /\ pc' = "loop"
    /\ print_mode' = Some(databyte')
    /\ UNCHANGED << rate_mode, parsed_timestamps >>

\* C21 as stated: for a value frame with bit7 clear the outcome is that of
\* the frame with bit4 of the flags byte cleared.
C21_Bit4Ignored ==
    [][FlagsRead => OutcomeAsFor(WithoutBit4(byte3'))]_vars

\* C21 as amended: that holds when bit5 is set; a flags byte with bit4 set
\* and bit5 clear makes parse() fail where the same byte with bit4 clear is
\* accepted (when its bits 1 to 6 are then all clear).
C21_Bit4IgnoredInHzGate ==
    [][/\ (FlagsRead /\ (byte3' \div 32) % 2 = 1) =>
            OutcomeAsFor(WithoutBit4(byte3'))
       /\ (FlagsRead /\ (byte3' \div 32) % 2 = 0
                     /\ (byte3' \div 16) % 2 = 1) =>
            /\ pc' = "raised" /\ exc' = "Exception"
            /\ parsed_values' = parsed_values
            /\ it_raw_data' = it_raw_data + 3
       /\ (FlagsRead /\ byte3' \in {0, 1}) => pc' # "raised" \/
                                              exc' # "Exception"]_vars

\* A frame with flags 0x30 (Hz gate, bit4 set) has been decoded like one
\* with flags 0x20.
C21_Witness ==
    /\ pc = "loop"
    /\ byte3 = 48 /\ data = << 0, 39, 16 >>
    /\ parsed_values # << >>
    /\ Last(parsed_values) = Some(2710)

\* The step failed on the flags byte: Exception, raised after the flags byte
\* and the byte read with it, the payload not read, nothing appended.
FailedOnFlags ==
    /\ pc' = "raised" /\ exc' = "Exception"
    /\ it_raw_data' = it_raw_data + 3
    /\ Len(data') = 2
    /\ parsed_values' = parsed_values

\* C22 as stated: bit5 of the flags byte alone selects the acquisition mode,
\* seconds gate when clear and Hz gate when set, so that a flags byte with
\* bit7 clear is always one of the two and the frame does not fail on it.
C22_Bit5Selects ==
    [][FlagsRead => ~(pc' = "raised" /\ exc' = "Exception")]_vars

\* C22 as amended: the flags byte is of the seconds gate when its bits 1 to
\* 6 are all clear and of the Hz gate when bit5 is set; with any other flags
\* byte, and with no other, parse() fails before a payload byte is consumed
\* and without appending a measurement.
C22_GateOrFailure ==
    [][FlagsRead =>
         LET f == byte3'
             seconds == f \in {0, 1}
             hz == (f \div 32) % 2 = 1
         IN /\ (seconds \/ hz) => ~(pc' = "raised" /\ exc' = "Exception")
            /\ ~(seconds \/ hz) => FailedOnFlags]_vars

\* A frame with flags 0x02 (bit5 clear, bit1 set) has failed.
C22_Witness ==
    /\ pc = "raised" /\ exc = "Exception"
    /\ byte3 = 2 /\ Len(data) = 2

\* The byte of the step changed nothing in the result: the four result
\* fields are as before, one byte was consumed, the three flags are false.
ByteIgnored ==
    /\ UNCHANGED << parsed_values, parsed_timestamps, rate_mode, print_mode >>
    /\ it_raw_data' = it_raw_data + 1
    /\ pc' = "loop"
    /\ ~escmode' /\ ~seiko_mode' /\ ~timestamp_mode'

\* After an escape byte, with nothing armed, the byte is not a command.
UnrecognisedCommand ==
    /\ escmode /\ ~Armed
    /\ databyte' \notin {ESC, CmdHeader, CmdValue, CmdTimestamp}

\* C23 as stated: any byte processed when no escape is pending and no frame
\* is armed, and any unrecognised command byte right after an escape byte
\* when nothing is armed, leaves the result fields unchanged, consumes one
\* byte and leaves the three flags false.
C23_IdleByteIgnored ==
    [][(IterStep /\ (~escmode \/ UnrecognisedCommand)) => ByteIgnored]_vars

\* C23 as amended: the same, for the bytes other than the escape byte; an
\* escape byte processed when no escape is pending also leaves the result
\* fields unchanged and consumes one byte, and leaves escmode true.
C23_NonEscapeByteIgnored ==
    [][/\ (IterStep /\ ~escmode /\ databyte' # ESC) => ByteIgnored
       /\ (IterStep /\ UnrecognisedCommand) => ByteIgnored
       /\ (IterStep /\ ~escmode /\ databyte' = ESC) =>
             /\ UNCHANGED << parsed_values, parsed_timestamps,
                             rate_mode, print_mode >>
             /\ it_raw_data' = it_raw_data + 1
             /\ escmode' /\ ~seiko_mode' /\ ~timestamp_mode']_vars

\* A line feed was processed as the first byte of the buffer.
C23_Witness ==
    /\ pc = "loop" /\ it_raw_data = 1 /\ databyte = 10
    /\ ~escmode /\ ~seiko_mode /\ ~timestamp_mode
    /\ parsed_values = << >> /\ parsed_timestamps = << >>
    /\ rate_mode = None /\ print_mode = None

\* The step reads the mode byte of a value frame of the file whose flags
\* byte, with bit7 clear, and reserved byte are both in the file.
ValueFrameOfFile ==
    /\ Fixed /\ IterStep /\ Armed
    /\ databyte' \in PRINT_MODES
    /\ Len(raw_data) >= it_raw_data + 3
    /\ ~HasBit(raw_data[it_raw_data + 2], ErrorBit)

\* C24: the byte that follows the flags byte of a value frame with bit7
\* clear is consumed and never interpreted: the outcome of the frame (failure
\* or underrun or measurement, the four result fields, the bytes consumed) is
\* the one given by the mode byte, the flags byte and the payload bytes of
\* the file, whatever the byte between them, so that two buffers that differ
\* only in that byte give the same results and the same outcome.
C24_ReservedByteIgnored ==
    [][ValueFrameOfFile =>
         LET f == raw_data[it_raw_data + 2]
             payload == SubSeq(raw_data, it_raw_data + 4, it_raw_data + 6)
             complete == Len(raw_data) >= it_raw_data + 6
         IN /\ print_mode' = Some(raw_data[it_raw_data + 1])
            /\ UNCHANGED << rate_mode, parsed_timestamps >>
            /\ IF ~AcquisitionAccepted(f)
               THEN /\ pc' = "raised" /\ exc' = "Exception"
                    /\ it_raw_data' = it_raw_data + 3
                    /\ parsed_values' = parsed_values
               ELSE IF ~complete
               THEN /\ pc' = "returned" /\ partial'
                    /\ it_raw_data' = Len(raw_data)
                    /\ parsed_values' = parsed_values
               ELSE IF ~AllNibblesDecimal(payload)
               THEN /\ pc' = "raised" /\ exc' = "ValueError"
                    /\ it_raw_data' = it_raw_data + 6
                    /\ parsed_values' = parsed_values
               ELSE /\ pc' = "loop"
                    /\ it_raw_data' = it_raw_data + 6
                    /\ parsed_values' =
                          Append(parsed_values,
                                 Some(NibbleDecimal(payload) * SignBit(f)))]_vars

\* A frame whose reserved byte is an escape byte gave its measurement, and
\* the scan went on after the payload.
C24_Witness ==
    /\ raw_data = << ESC, CmdValue, 1, 0, ESC, 0, 39, 16 >>
    /\ pc = "loop" /\ it_raw_data = 8
    /\ ukn_flag = ESC
    /\ parsed_values = << Some(2710) >>

\* How a pass ends: the iterator exhausted at the top of the loop, an
\* underrun inside a frame, or an exception.
PassEnded ==
    \/ pc' = "returned" /\ ~partial' /\ it_raw_data' = Len(raw_data)
    \/ pc' = "returned" /\ partial' /\ it_raw_data' = Len(raw_data)
    \/ pc' = "raised" /\ exc' # ""

\* C25: parse() terminates on every finite buffer. Every step of the scan
\* either takes at least one byte from the iterator, which only moves
\* forward and never past the end of the buffer (so that no byte is read
\* twice and a pass reads at most len(buffer) bytes), or finds it exhausted;
\* a pass ends by exhaustion, underrun or failure; and every pass ends.
C25_PassTerminates ==
    /\ [][pc = "loop" =>
            /\ it_raw_data' <= Len(raw_data)
            /\ \/ it_raw_data' > it_raw_data
               \/ it_raw_data' = it_raw_data /\ it_raw_data = Len(raw_data)
                  /\ pc' = "returned"
            /\ pc' # "loop" => PassEnded]_vars
    /\ [](pc = "loop" => <>(pc \in {"returned", "raised"}))

\* A pass over two value frames ended by exhaustion, all 16 bytes read.
C25_Witness ==
    /\ pc = "returned" /\ ~partial
    /\ Len(raw_data) = 16 /\ it_raw_data = 16
    /\ Len(parsed_values) = 2

\* C26: every entry of parsed_timestamps is two two-digit fields joined by
\* ':', 5 characters in all, whatever minute and second bytes the timestamp
\* frame carried.
C26_TimestampFiveChars ==
    \A i \in 1..Len(parsed_timestamps) :
        /\ Len(parsed_timestamps[i]) = 5
        /\ parsed_timestamps[i][3] = ":"

\* C27: for cut_val > 0, build_wrapped_dataset returns a list of the length
\* of values in which every value of magnitude at most cut_val is unchanged
\* and every value lies in [-cut_val, +cut_val], however many multiples of
\* cut_val it exceeded.
C27_WrappedInRange ==
    (cut_val > 0 /\ WrapReturned) =>
        /\ Len(temp_values) = Len(cumulated_values)
        /\ \A i \in 1..Len(temp_values) :
              /\ Abs(cumulated_values[i]) <= cut_val
                    => temp_values[i] = cumulated_values[i]
              /\ 0 - cut_val <= temp_values[i]
              /\ temp_values[i] <= cut_val

\* C28: to_csv writes, after the header, exactly one row per parsed
\* measurement, in parse order: the formatted measurement alone when there
\* are no timestamps, and (timestamp i, measurement i) when there are.
C28_RowPerMeasurement ==
    [][(ToCsvStep /\ result' = "written") =>
         /\ Len(csv_rows') = 1 + Len(parsed_values)
         /\ \A i \in 1..Len(parsed_values) :
               csv_rows'[i + 1] =
                  IF parsed_timestamps = << >>
                  THEN << formatted_values'[i] >>
                  ELSE << parsed_timestamps[i], formatted_values'[i] >>]_vars

\* C29: a value frame with bit7 clear whose 3 payload bytes hold a nibble
\* above 9 makes parse() fail (ValueError) and appends no measurement; a
\* payload whose six nibbles are all decimal digits is accepted, and these
\* are the only ones.
C29_NonDecimalNibbleFails ==
    [][ValueFrameRead =>
         IF AllNibblesDecimal(data')
         THEN /\ pc' = "loop"
              /\ Len(parsed_values') = Len(parsed_values) + 1
              /\ Last(parsed_values') # None
         ELSE /\ pc' = "raised" /\ exc' = "ValueError"
              /\ parsed_values' = parsed_values]_vars

\* The payload F0 00 00 of the second frame of a file made parse() fail, the
\* measurement of the first frame kept and none added.
C29_Witness ==
    /\ pc = "raised" /\ exc = "ValueError"
    /\ data = << 240, 0, 0 >>
    /\ parsed_values = << Some(2710) >>

\* C30: rate_mode is unset or one of 0, 1, 2, 3 in every reachable state,
\* also after a header frame was rejected and the pass aborted: a rejected
\* rate code is not stored.
C30_RateModeValid == rate_mode = None \/ rate_mode[1] \in RATE_MODES

\* The step ended the pass on an underrun: read_from_buffer found the
\* iterator exhausted and parse() returned.
Underrun == pc = "loop" /\ pc' = "returned" /\ partial'

\* C31: a pass stops on underrun only inside a frame.  Inside a value frame
\* (armed flags, accepted mode byte, flags or payload bytes incomplete)
\* print_mode is already the mode byte of the truncated frame and no
\* measurement was appended for it; inside a header or a timestamp payload
\* rate_mode and parsed_timestamps are as before the frame.  No other result
\* field changes in either case.
C31_UnderrunEffects ==
    [][Underrun =>
         \/ /\ Armed /\ databyte' \in PRINT_MODES
            /\ print_mode' = Some(databyte')
            /\ UNCHANGED << parsed_values, parsed_timestamps, rate_mode >>
         \/ /\ escmode /\ databyte' \in {CmdHeader, CmdTimestamp}
            /\ UNCHANGED << parsed_values, parsed_timestamps, rate_mode,
                            print_mode >>]_vars

\* After a frame of print mode 1, a frame of print mode 3 was cut after its
\* flags byte: print_mode is 3 and the only measurement is the first one.
C31_Witness ==
    /\ raw_data = << ESC, CmdValue, 1, 0, 0, 0, 39, 16, ESC, CmdValue, 3, 33 >>
    /\ pc = "returned" /\ partial
    /\ print_mode = Some(3)
    /\ parsed_values = << Some(2710) >>

====
